---- MODULE Spec2Model ----
(***************************************************************************)
(* A model of the LSB steganography codec of shh (src/src/encode_decode.rs *)
(* and the Payload type of src/src/lib.rs).                                *)
(*                                                                         *)
(* A carrier image is modelled by its flat RGB byte buffer, a sequence of  *)
(* bytes 0..255 (what to_rgb8().into_raw() returns).  A String is          *)
(* modelled by the sequence of its UTF-8 bytes.  Machine integers wider    *)
(* than TLC's own integers (usize, u64) are modelled exactly, as           *)
(* little-endian sequences of 16-bit limbs.                                *)
(***************************************************************************)
EXTENDS Integers, Sequences, FiniteSets, TLC

VARIABLES
    b_pc, target, value, encoded, decoded,          \* the bit codec
    n_pc, pshape, carrier_len, overflow_checks, plan, \* sizes and capacity
    fit_args, fit_res,
    pc, carrier, payload, enc, image, dec           \* the image codec

bitVars == <<b_pc, target, value, encoded, decoded>>
numVars == <<n_pc, pshape, carrier_len, overflow_checks, plan, fit_args, fit_res>>
imgVars == <<pc, carrier, payload, enc, image, dec>>
vars == <<bitVars, numVars, imgVars>>

Min(a, b) == IF a <= b THEN a ELSE b
Max(a, b) == IF a >= b THEN a ELSE b

(***************************************************************************)
(* u8 bit operations.                                                      *)
(***************************************************************************)
Byte == 0..255

Bit(x, i) == (x \div (2 ^ i)) % 2

\* a & b and a | b, tabulated once for all pairs of bytes
AndTable ==
    [a \in Byte |-> [b \in Byte |->
        LET RECURSIVE And(_)
            And(i) == IF i = 8 THEN 0
                      ELSE Bit(a, i) * Bit(b, i) * (2 ^ i) + And(i + 1)
        IN And(0)]]

OrTable ==
    [a \in Byte |-> [b \in Byte |->
        LET RECURSIVE Or(_)
            Or(i) == IF i = 8 THEN 0
                     ELSE Max(Bit(a, i), Bit(b, i)) * (2 ^ i) + Or(i + 1)
        IN Or(0)]]

BitAnd(a, b) == AndTable[a][b]

BitOr(a, b) == OrTable[a][b]

\* u8 << i for i < 8: bits shifted out of the byte are dropped
Shl8(x, i) == (x * (2 ^ i)) % 256

(***************************************************************************)
(* encode_byte_in_bytes / decode_byte                                      *)
(***************************************************************************)
RECURSIVE encode_loop(_, _, _, _, _)
encode_loop(tgt, payload_byte, i, mask, result) ==
    IF i = 8 THEN result
    ELSE LET current_bit == BitAnd(payload_byte, mask)
             e == IF current_bit # 0
                  THEN BitOr(tgt[i + 1], 1)
                  ELSE BitAnd(tgt[i + 1], 254)
         IN encode_loop(tgt, payload_byte, i + 1, Shl8(mask, 1),
                        [result EXCEPT ![i + 1] = e])

\* a faulty variant: the mask is not advanced, every window byte gets bit 0 of the payload
RECURSIVE encode_loop_stuck_mask(_, _, _, _, _)
encode_loop_stuck_mask(tgt, payload_byte, i, mask, result) ==
    IF i = 8 THEN result
    ELSE LET current_bit == BitAnd(payload_byte, mask)
             e == IF current_bit # 0
                  THEN BitOr(tgt[i + 1], 1)
                  ELSE BitAnd(tgt[i + 1], 254)
         IN encode_loop_stuck_mask(tgt, payload_byte, i + 1, mask,
                                   [result EXCEPT ![i + 1] = e])

\* a faulty variant: the bits are written into a zeroed window, not into the target
encode_byte_in_bytes_bits_only(tgt, payload_byte) ==
    [i \in 1..8 |-> Bit(payload_byte, i - 1)]

encode_byte_in_bytes_stuck_mask(tgt, payload_byte) ==
    encode_loop_stuck_mask(tgt, payload_byte, 0, 1, [i \in 1..8 |-> 0])

encode_byte_in_bytes(tgt, payload_byte) ==
    encode_loop(tgt, payload_byte, 0, 1, [i \in 1..8 |-> 0])

RECURSIVE decode_loop(_, _, _)
decode_loop(enc_w, i, acc) ==
    IF i = 8 THEN acc
    ELSE decode_loop(enc_w, i + 1, BitOr(acc, Shl8(BitAnd(1, enc_w[i + 1]), i)))

decode_byte(enc_w) == decode_loop(enc_w, 0, 0)

(***************************************************************************)
(* Machine integers.  A number is a little-endian sequence of MathLimbs    *)
(* limbs in base 2^16; MathLimbs is one limb wider than the widest machine *)
(* type, so WAdd and WMulSmall below are exact (mathematical) on machine   *)
(* values and overflow of a machine type is a test on the upper limbs.     *)
(***************************************************************************)
\* the width of usize in 16-bit limbs: 2 is a 32-bit target
UsizeLimbs == 2

U16Limbs == 16 \div 16
U64Limbs == 64 \div 16
LimbBase == 256 * 256
MathLimbs == Max(UsizeLimbs, U64Limbs) + 1

Limbs == 1..MathLimbs

FromInt(n) ==
    [i \in Limbs |-> IF i = 1 THEN n % LimbBase
                     ELSE IF i = 2 THEN n \div LimbBase ELSE 0]

FitsLimbs(a, k) == \A i \in Limbs : i > k => a[i] = 0

Truncate(a, k) == [i \in Limbs |-> IF i <= k THEN a[i] ELSE 0]

\* the value as a TLC integer, for numbers below 2^31
ToInt(a) == a[1] + LimbBase * a[2]

WAdd(a, b) ==
    LET RECURSIVE Go(_, _)
        Go(i, carry) ==
            IF i > MathLimbs THEN <<>>
            ELSE LET s == a[i] + b[i] + carry
                 IN <<s % LimbBase>> \o Go(i + 1, s \div LimbBase)
    IN Go(1, 0)

\* a - b, for b <= a
WSub(a, b) ==
    LET RECURSIVE Go(_, _)
        Go(i, borrow) ==
            IF i > MathLimbs THEN <<>>
            ELSE LET d == a[i] - b[i] - borrow
                 IN <<d % LimbBase>> \o Go(i + 1, IF d < 0 THEN 1 ELSE 0)
    IN Go(1, 0)

WMulSmall(a, k) ==
    LET RECURSIVE Go(_, _)
        Go(i, carry) ==
            IF i > MathLimbs THEN <<>>
            ELSE LET m == a[i] * k + carry
                 IN <<m % LimbBase>> \o Go(i + 1, m \div LimbBase)
    IN Go(1, 0)

\* floor(a / 8)
WDiv8(a) ==
    [i \in Limbs |-> (a[i] \div 8)
                     + (IF i < MathLimbs THEN (a[i + 1] % 8) * (LimbBase \div 8) ELSE 0)]

WLeq(a, b) ==
    LET RECURSIVE Go(_)
        Go(i) == IF i = 0 THEN TRUE
                 ELSE IF a[i] # b[i] THEN a[i] < b[i]
                 ELSE Go(i - 1)
    IN Go(MathLimbs)

WLt(a, b) == ~WLeq(b, a)

UsizeMax == [i \in Limbs |-> IF i <= UsizeLimbs THEN LimbBase - 1 ELSE 0]

\* isize::MAX, the largest length a Vec<u8> or a String can have
IsizeMax ==
    [i \in Limbs |-> IF i < UsizeLimbs THEN LimbBase - 1
                     ELSE IF i = UsizeLimbs THEN LimbBase \div 2 - 1 ELSE 0]

U16Max == [i \in Limbs |-> IF i <= U16Limbs THEN LimbBase - 1 ELSE 0]

IsUsize(a) == FitsLimbs(a, UsizeLimbs)

\* uN::to_le_bytes: byte j of the value, least significant first
to_le_bytes(a, nbytes) ==
    [j \in 1..nbytes |->
        LET limb == a[(j + 1) \div 2]
        IN IF j % 2 = 1 THEN limb % 256 ELSE limb \div 256]

\* uN::from_le_bytes of 2 or 8 bytes
from_le_bytes(bytes) ==
    [i \in Limbs |-> IF 2 * i <= Len(bytes)
                     THEN bytes[2 * i - 1] + 256 * bytes[2 * i] ELSE 0]

\* usize + usize: panics when overflow checks are compiled in (the default of
\* a debug build), wraps otherwise (the default of a release build)
usize_add(a, b, checks) ==
    LET s == WAdd(a, b)
    IN IF IsUsize(s) THEN [panic |-> FALSE, v |-> s]
       ELSE IF checks THEN [panic |-> TRUE, v |-> FromInt(0)]
       ELSE [panic |-> FALSE, v |-> Truncate(s, UsizeLimbs)]

\* a + b where a is the outcome of an earlier addition
then_add(ra, b, checks) ==
    IF ra.panic THEN ra ELSE usize_add(ra.v, b, checks)

\* usize::checked_mul
checked_mul(a, k) ==
    LET m == WMulSmall(a, k)
    IN IF IsUsize(m) THEN [some |-> TRUE, v |-> m]
       ELSE [some |-> FALSE, v |-> FromInt(0)]

(***************************************************************************)
(* Payload (lib.rs).  A payload is                                         *)
(*   [tag |-> "File", file_name |-> bytes of the name, bytes |-> content]  *)
(*   [tag |-> "Literal", string |-> bytes of the text].                    *)
(* Its shape holds the lengths alone, as usize values:                     *)
(*   [tag |-> "File", file_name_len, bytes_len]                            *)
(*   [tag |-> "Literal", string_len];                                      *)
(* size() and the header into_bytes() writes depend on the shape only.     *)
(***************************************************************************)
OutputTxt == <<111, 117, 116, 112, 117, 116, 46, 116, 120, 116>>  \* "output.txt"

Shape(p) ==
    IF p.tag = "File"
    THEN [tag |-> "File", file_name_len |-> FromInt(Len(p.file_name)),
          bytes_len |-> FromInt(Len(p.bytes))]
    ELSE [tag |-> "Literal", string_len |-> FromInt(Len(p.string))]

\* a faulty variant: the name length is left out of the size
size_without_name(shape, checks) ==
    IF shape.tag = "File"
    THEN then_add(usize_add(shape.bytes_len, FromInt(8), checks), FromInt(2), checks)
    ELSE then_add(usize_add(shape.string_len, FromInt(8), checks), FromInt(2), checks)

\* Payload::size
size(shape, checks) ==
    IF shape.tag = "File"
    THEN then_add(then_add(usize_add(shape.bytes_len, FromInt(8), checks),
                           shape.file_name_len, checks),
                  FromInt(2), checks)
    ELSE then_add(then_add(usize_add(shape.string_len, FromInt(8), checks),
                           FromInt(Len(OutputTxt)), checks),
                  FromInt(2), checks)

\* a faulty variant: the name is not checked against u16::MAX
into_bytes_header_unchecked(shape) ==
    IF shape.tag = "File"
    THEN [ok |-> TRUE,
          name_len |-> to_le_bytes(Truncate(shape.file_name_len, U16Limbs), 2),
          bytes_len |-> to_le_bytes(Truncate(shape.bytes_len, U64Limbs), 8)]
    ELSE [ok |-> TRUE,
          name_len |-> to_le_bytes(Truncate(FromInt(Len(OutputTxt)), U16Limbs), 2),
          bytes_len |-> to_le_bytes(Truncate(shape.string_len, U64Limbs), 8)]

\* Payload::into_bytes, the two length fields: `as u16` and `as u64` truncate
into_bytes_header(shape) ==
    IF shape.tag = "File"
    THEN IF WLt(U16Max, shape.file_name_len)
         THEN [ok |-> FALSE, err |-> "NameTooLong"]
         ELSE [ok |-> TRUE,
               name_len |-> to_le_bytes(Truncate(shape.file_name_len, U16Limbs), 2),
               bytes_len |-> to_le_bytes(Truncate(shape.bytes_len, U64Limbs), 8)]
    ELSE [ok |-> TRUE,
          name_len |-> to_le_bytes(Truncate(FromInt(Len(OutputTxt)), U16Limbs), 2),
          bytes_len |-> to_le_bytes(Truncate(shape.string_len, U64Limbs), 8)]

\* Payload::into_bytes
into_bytes(p) ==
    LET h == into_bytes_header(Shape(p))
    IN IF ~h.ok THEN h
       ELSE IF p.tag = "File"
       THEN [ok |-> TRUE, bytes |-> h.name_len \o p.file_name \o h.bytes_len \o p.bytes]
       ELSE [ok |-> TRUE, bytes |-> h.name_len \o OutputTxt \o h.bytes_len \o p.string]

(***************************************************************************)
(* payload_fits and the opening of encode_image (lines 7-15): the size,    *)
(* the capacity check and the serialization of the header.                 *)
(***************************************************************************)
\* a faulty variant: the multiplication wraps
payload_fits_wrapping(payload_size, image_rgb_size) ==
    WLeq(Truncate(WMulSmall(payload_size, 8), UsizeLimbs), image_rgb_size)

\* a faulty variant: the capacity is compared strictly
payload_fits_strict(payload_size, image_rgb_size) ==
    LET it == checked_mul(payload_size, 8)
    IN IF it.some THEN WLt(it.v, image_rgb_size) ELSE FALSE

payload_fits(payload_size, image_rgb_size) ==
    LET it == checked_mul(payload_size, 8)
    IN IF it.some THEN WLeq(it.v, image_rgb_size) ELSE FALSE

\* encode_image up to and including payload.into_bytes()?
encode_prelude(shape, image_rgb_size, checks) ==
    LET payload_size == size(shape, checks)
    IN IF payload_size.panic
       THEN [outcome |-> "Panic"]
       ELSE IF ~payload_fits(payload_size.v, image_rgb_size)
       THEN [outcome |-> "PayloadTooLarge", payload_size |-> payload_size.v]
       ELSE LET h == into_bytes_header(shape)
            IN IF ~h.ok
               THEN [outcome |-> h.err, payload_size |-> payload_size.v]
               ELSE [outcome |-> "Ok", payload_size |-> payload_size.v,
                     name_len |-> h.name_len, bytes_len |-> h.bytes_len]

(***************************************************************************)
(* The image codec (encode_decode.rs)                                      *)
(***************************************************************************)
\* chunks_exact(8): floor(len / 8) windows, the remainder is in no window
create_byte_chunks(image_bytes) ==
    [k \in 1..(Len(image_bytes) \div 8) |-> SubSeq(image_bytes, 8 * (k - 1) + 1, 8 * k)]

\* Iterator::take(count), count a usize: at most count items
Take(chunks, count) ==
    IF WLeq(FromInt(Len(chunks)), count) THEN chunks
    ELSE SubSeq(chunks, 1, ToInt(count))

\* the bytes decoded from the next `count` windows, and the windows left
decode_chunks(chunks, count) ==
    LET taken == Take(chunks, count)
    IN [bytes |-> [k \in 1..Len(taken) |-> decode_byte(taken[k])],
        rest |-> SubSeq(chunks, Len(taken) + 1, Len(chunks))]

\* width * height * 3, the length of the RGB buffer
image_rgb_bytes_size(image_bytes) == FromInt(Len(image_bytes))

u64_to_usize(v) ==
    IF WLeq(v, Truncate(UsizeMax, U64Limbs)) THEN [ok |-> TRUE, v |-> v]
    ELSE [ok |-> FALSE, err |-> "SizeOverflow"]

\* String::from_utf8 succeeds: the bytes are well-formed UTF-8
RECURSIVE IsValidUtf8(_)
IsValidUtf8(bs) ==
    IF bs = <<>> THEN TRUE
    ELSE LET b1 == bs[1]
             n == Len(bs)
             Cont(i) == i <= n /\ bs[i] >= 128 /\ bs[i] <= 191
             In(i, lo, hi) == i <= n /\ bs[i] >= lo /\ bs[i] <= hi
             Rest(k) == IsValidUtf8(SubSeq(bs, k + 1, n))
         IN IF b1 <= 127 THEN Rest(1)
            ELSE IF b1 >= 194 /\ b1 <= 223 THEN Cont(2) /\ Rest(2)
            ELSE IF b1 = 224 THEN In(2, 160, 191) /\ Cont(3) /\ Rest(3)
            ELSE IF b1 = 237 THEN In(2, 128, 159) /\ Cont(3) /\ Rest(3)
            ELSE IF b1 >= 225 /\ b1 <= 239 THEN Cont(2) /\ Cont(3) /\ Rest(3)
            ELSE IF b1 = 240 THEN In(2, 144, 191) /\ Cont(3) /\ Cont(4) /\ Rest(4)
            ELSE IF b1 >= 241 /\ b1 <= 243 THEN Cont(2) /\ Cont(3) /\ Cont(4) /\ Rest(4)
            ELSE IF b1 = 244 THEN In(2, 128, 143) /\ Cont(3) /\ Cont(4) /\ Rest(4)
            ELSE FALSE

encode_image(image_bytes, p, checks) ==
    LET pre == encode_prelude(Shape(p), image_rgb_bytes_size(image_bytes), checks)
    IN IF pre.outcome # "Ok" THEN [ok |-> FALSE, err |-> pre.outcome]
       ELSE LET payload_bytes == into_bytes(p).bytes
                chunks == Take(create_byte_chunks(image_bytes), pre.payload_size)
                n == Min(Len(payload_bytes), Len(chunks))      \* zip
                windows == [k \in 1..n |->
                               encode_byte_in_bytes(chunks[k], payload_bytes[k])]
                output == [j \in 1..(8 * n) |->
                               windows[((j - 1) \div 8) + 1][((j - 1) % 8) + 1]]
            IN [ok |-> TRUE,
                bytes |-> output \o SubSeq(image_bytes, Len(output) + 1, Len(image_bytes))]

Truncated(field) == [ok |-> FALSE, err |-> "TruncatedFrame", field |-> field]

\* a faulty variant: the length of the decoded payload is not checked
payload_complete_unchecked(payload_bytes, payload_size) == TRUE

\* the negation of `payload.len() < payload_size`
payload_complete(payload_bytes, payload_size) ==
    ~WLt(FromInt(Len(payload_bytes)), payload_size)

decode_image(image_bytes) ==
    LET chunks == create_byte_chunks(image_bytes)
        r1 == decode_chunks(chunks, FromInt(2))
    IN IF Len(r1.bytes) # 2 THEN Truncated("name_length")
       ELSE
       LET file_name_size == from_le_bytes(r1.bytes)
           r2 == decode_chunks(r1.rest, file_name_size)
       IN IF ~IsValidUtf8(r2.bytes)
          THEN [ok |-> FALSE, err |-> "InvalidName", field |-> "name"]
          ELSE
          LET r3 == decode_chunks(r2.rest, FromInt(8))
          IN IF Len(r3.bytes) # 8 THEN Truncated("payload_length")
             ELSE
             LET u == u64_to_usize(from_le_bytes(r3.bytes))
             IN IF ~u.ok THEN [ok |-> FALSE, err |-> u.err, field |-> "payload_length"]
                ELSE
                LET r4 == decode_chunks(r3.rest, u.v)
                IN IF ~payload_complete(r4.bytes, u.v) THEN Truncated("payload")
                   ELSE [ok |-> TRUE, name |-> r2.bytes, payload |-> r4.bytes]

(***************************************************************************)
(* The bit codec on its own: one payload byte into one window and back.    *)
(***************************************************************************)
\* the windows of the unit tests of encode_decode.rs, and the uniform ones
TargetWindows ==
    { <<160, 150, 68, 40, 140, 46, 76, 136>>,
      <<97, 119, 5, 41, 131, 47, 77, 233>>,
      <<32, 23, 5, 41, 128, 47, 77, 136>>,
      <<11, 19, 101, 17, 25, 1, 13, 1>>,
      <<8, 1, 12, 13, 78, 236, 116, 11>> }
    \cup { [i \in 1..8 |-> b] : b \in {0, 1, 84, 85, 254, 255} }

IdleBits ==
    /\ b_pc = "idle" /\ target = <<>> /\ value = 0
    /\ encoded = <<>> /\ decoded = 0

IdleSizes ==
    /\ n_pc = "idle" /\ pshape = [tag |-> "None"] /\ carrier_len = FromInt(0)
    /\ plan = [outcome |-> "None"]
    /\ fit_args = <<FromInt(0), FromInt(0)>> /\ fit_res = FALSE

IdleImage ==
    /\ pc = "idle" /\ carrier = <<>> /\ payload = [tag |-> "None"]
    /\ enc = [ok |-> FALSE, err |-> "None"] /\ image = <<>>
    /\ dec = [ok |-> FALSE, err |-> "None"]

BitsInit ==
    /\ b_pc = "start"
    /\ target \in TargetWindows
    /\ value \in Byte
    /\ encoded = <<>>
    /\ decoded = 0
    /\ IdleSizes /\ IdleImage /\ overflow_checks = FALSE

EncodeByte ==
    /\ b_pc = "start"
    /\ encoded' = encode_byte_in_bytes(target, value)
    /\ b_pc' = "encoded"
    /\ UNCHANGED <<target, value, decoded, numVars, imgVars>>

DecodeByte ==
    /\ b_pc = "encoded"
    /\ decoded' = decode_byte(encoded)
    /\ b_pc' = "decoded"
    /\ UNCHANGED <<target, value, encoded, numVars, imgVars>>

\* decode_byte on a window that was never encoded
DecodeTarget ==
    /\ b_pc = "start"
    /\ decoded' = decode_byte(target)
    /\ b_pc' = "decoded_target"
    /\ UNCHANGED <<target, value, encoded, numVars, imgVars>>

BitsNext == EncodeByte \/ DecodeByte \/ DecodeTarget

SpecBits == BitsInit /\ [][BitsNext]_vars

(***************************************************************************)
(* Sizes and capacity: Payload::size, payload_fits and Payload::into_bytes *)
(* over the whole range of usize, on the lengths of the payload alone.     *)
(***************************************************************************)
\* how far around each landmark value the inputs are drawn
Spread == 2

Near(x) ==
    { WAdd(x, FromInt(d)) : d \in 0..Spread }
    \cup { WSub(x, FromInt(d)) : d \in { e \in 0..Spread : WLeq(FromInt(e), x) } }

\* lengths a Vec<u8> or a String can have
LenVals(S) == { x \in S : WLeq(x, IsizeMax) }

UsizeVals(S) == { x \in S : IsUsize(x) }

\* 2 + name_length + 8 + payload_length, the mathematical sum
TrueSize(shape) ==
    IF shape.tag = "File"
    THEN WAdd(WAdd(shape.file_name_len, shape.bytes_len), FromInt(10))
    ELSE WAdd(shape.string_len, FromInt(10 + Len(OutputTxt)))

NameLens ==
    LenVals(Near(FromInt(0)) \cup Near(FromInt(Len(OutputTxt)))
            \cup Near(U16Max) \cup Near(IsizeMax))

BytesLens ==
    LenVals(Near(FromInt(0)) \cup Near(FromInt(255)) \cup Near(FromInt(65536))
            \cup Near(WSub(IsizeMax, FromInt(9))) \cup Near(IsizeMax))

Shapes ==
    { [tag |-> "File", file_name_len |-> n, bytes_len |-> b] :
        n \in NameLens, b \in BytesLens }
    \cup { [tag |-> "Literal", string_len |-> b] : b \in BytesLens }

\* carriers at the capacity boundary of the frame, of its wrapped length, and the
\* smallest and largest ones
CarrierLensFor(shape) ==
    LenVals({FromInt(0), IsizeMax}
            \cup Near(WMulSmall(TrueSize(shape), 8))
            \cup Near(WMulSmall(Truncate(TrueSize(shape), UsizeLimbs), 8)))

\* the arguments of the unit test test_payload_fits
TestVectors ==
    { <<FromInt(1), FromInt(72)>>,
      <<FromInt(100), FromInt(1000000)>>,
      <<FromInt(1000), FromInt(8065)>>,
      <<FromInt(1000), FromInt(8063)>>,
      <<UsizeMax, UsizeMax>>,
      <<WSub(WDiv8(UsizeMax), FromInt(9)), UsizeMax>>,
      <<WSub(WDiv8(UsizeMax), FromInt(7)), UsizeMax>> }

FitSizes ==
    UsizeVals(Near(FromInt(0)) \cup Near(FromInt(1000)) \cup Near(WDiv8(UsizeMax))
              \cup Near(WSub(WDiv8(UsizeMax), FromInt(8))) \cup Near(UsizeMax))

FitCarriersFor(s) ==
    UsizeVals({FromInt(0), UsizeMax}
              \cup Near(WMulSmall(s, 8))
              \cup Near(WAdd(WMulSmall(s, 8), FromInt(64)))
              \cup Near(Truncate(WMulSmall(s, 8), UsizeLimbs)))

FitArgs ==
    TestVectors \cup UNION { { <<s, c>> : c \in FitCarriersFor(s) } : s \in FitSizes }

SizesInit ==
    /\ \/ /\ n_pc = "encode"
          /\ pshape \in Shapes
          /\ carrier_len \in CarrierLensFor(pshape)
          /\ overflow_checks \in BOOLEAN
          /\ fit_args = <<FromInt(0), FromInt(0)>>
       \/ /\ n_pc = "fits"
          /\ fit_args \in FitArgs
          /\ pshape = [tag |-> "None"]
          /\ carrier_len = FromInt(0)
          /\ overflow_checks = FALSE
    /\ plan = [outcome |-> "None"]
    /\ fit_res = FALSE
    /\ IdleBits /\ IdleImage

\* a direct call of payload_fits, as in the unit test
PayloadFits ==
    /\ n_pc = "fits"
    /\ fit_res' = payload_fits(fit_args[1], fit_args[2])
    /\ n_pc' = "fitted"
    /\ UNCHANGED <<pshape, carrier_len, overflow_checks, plan, fit_args,
                   bitVars, imgVars>>

\* encode_image on a payload of this shape and a carrier of this length, up to
\* the point where the frame bytes exist
EncodePrelude ==
    /\ n_pc = "encode"
    /\ plan' = encode_prelude(pshape, carrier_len, overflow_checks)
    /\ n_pc' = "planned"
    /\ UNCHANGED <<pshape, carrier_len, overflow_checks, fit_args, fit_res,
                   bitVars, imgVars>>

\* Payload::into_bytes on a payload of this shape
IntoBytes ==
    /\ n_pc = "encode"
    /\ plan' = into_bytes_header(pshape)
    /\ n_pc' = "serialized"
    /\ UNCHANGED <<pshape, carrier_len, overflow_checks, fit_args, fit_res,
                   bitVars, imgVars>>

SizesNext == PayloadFits \/ EncodePrelude \/ IntoBytes

SpecSizes == SizesInit /\ [][SizesNext]_vars

(***************************************************************************)
(* The image codec: encode_image on a carrier and a payload, decode_image  *)
(* on the encoded image, on the encoded image cropped afterwards, and on a *)
(* carrier that was never encoded.                                         *)
(***************************************************************************)
\* the longest name, in characters, and the longest content, in bytes
MaxNameChars == 1
MaxDataLen == 1
\* carriers are drawn up to this many windows around the frame length
Slack == 1

NameChars == { <<65>>, <<195, 169>> }      \* "A" and the two bytes of U+00E9
DataBytes == { 0, 65, 255 }

RECURSIVE Strings(_)
Strings(k) ==
    IF k = 0 THEN { <<>> }
    ELSE Strings(k - 1) \cup { s \o c : s \in Strings(k - 1), c \in NameChars }

RECURSIVE Datas(_)
Datas(k) ==
    IF k = 0 THEN { <<>> }
    ELSE Datas(k - 1) \cup { Append(d, b) : d \in Datas(k - 1), b \in DataBytes }

Payloads ==
    { [tag |-> "File", file_name |-> n, bytes |-> d] :
        n \in Strings(MaxNameChars), d \in Datas(MaxDataLen) }
    \cup { [tag |-> "Literal", string |-> t] : t \in Strings(MaxNameChars) }

\* the frame length of a payload of the model, a small number
FrameLen(p) ==
    IF p.tag = "File" THEN 2 + Len(p.file_name) + 8 + Len(p.bytes)
    ELSE 2 + Len(OutputTxt) + 8 + Len(p.string)

CarrierLens(p) ==
    { 0, 16, 79, 80, 88 }
    \cup { 8 * w + r : w \in (FrameLen(p) - Slack)..(FrameLen(p) + Slack), r \in {0, 5} }

Patterns == { "zeros", "ones", "step", "mixed" }

Pattern(name, len) ==
    [i \in 1..len |->
        CASE name = "zeros" -> 0
          [] name = "ones" -> 255
          [] name = "step" -> IF i <= 16 THEN 0 ELSE 255
          [] OTHER -> (i * 37 + 11) % 256]

Init ==
    /\ pc = "ready"
    /\ payload \in Payloads
    /\ \E len \in CarrierLens(payload), pat \in Patterns : carrier = Pattern(pat, len)
    /\ overflow_checks \in BOOLEAN
    /\ enc = [ok |-> FALSE, err |-> "None"]
    /\ image = <<>>
    /\ dec = [ok |-> FALSE, err |-> "None"]
    /\ IdleBits /\ IdleSizes

Encode ==
    /\ pc = "ready"
    /\ enc' = encode_image(carrier, payload, overflow_checks)
    /\ pc' = "encoded"
    /\ UNCHANGED <<carrier, payload, image, dec, bitVars, numVars>>

\* Operation::Decode on the image Operation::Encode saved
Decode ==
    /\ pc = "encoded"
    /\ enc.ok
    /\ image' = enc.bytes
    /\ dec' = decode_image(enc.bytes)
    /\ pc' = "decoded"
    /\ UNCHANGED <<carrier, payload, enc, bitVars, numVars>>

\* Operation::Decode on the saved image cut down to its first w windows
DecodeCropped ==
    /\ pc = "encoded"
    /\ enc.ok
    /\ \E w \in 0..((Len(enc.bytes) \div 8) - 1) :
          /\ image' = SubSeq(enc.bytes, 1, 8 * w)
          /\ dec' = decode_image(SubSeq(enc.bytes, 1, 8 * w))
    /\ pc' = "decoded_cropped"
    /\ UNCHANGED <<carrier, payload, enc, bitVars, numVars>>

\* Operation::Decode on an image nothing was encoded in
DecodeCarrier ==
    /\ pc = "ready"
    /\ image' = carrier
    /\ dec' = decode_image(carrier)
    /\ pc' = "decoded_carrier"
    /\ UNCHANGED <<carrier, payload, enc, bitVars, numVars>>

Next == Encode \/ Decode \/ DecodeCropped \/ DecodeCarrier

Spec == Init /\ [][Next]_vars

(***************************************************************************)
(* Properties                                                              *)
(***************************************************************************)
\* the byte a window carries, by arithmetic on the parities of its bytes
LsbByte(w) ==
    (w[1] % 2) + 2 * (w[2] % 2) + 4 * (w[3] % 2) + 8 * (w[4] % 2)
    + 16 * (w[5] % 2) + 32 * (w[6] % 2) + 64 * (w[7] % 2) + 128 * (w[8] % 2)

\* the bytes the windows of a buffer carry, in order
LsbStream(buf) ==
    [k \in 1..(Len(buf) \div 8) |-> LsbByte(SubSeq(buf, 8 * (k - 1) + 1, 8 * k))]

ExpectedName(p) == IF p.tag = "File" THEN p.file_name ELSE OutputTxt

ExpectedBytes(p) == IF p.tag = "File" THEN p.bytes ELSE p.string

Zeros(len) == [i \in 1..len |-> 0]

EmptyText == [tag |-> "Literal", string |-> <<>>]
TextA == [tag |-> "Literal", string |-> <<65>>]

HasDecoded == pc \in {"decoded", "decoded_cropped", "decoded_carrier"}

\* C1: decoding the image encode_image returned gives back the name and the
\* bytes of the payload (the name "output.txt" and the bytes of the text for a
\* Literal), whatever the carrier held.
C1_FrameRoundTrip ==
    pc = "decoded" =>
        /\ dec.ok
        /\ dec.name = ExpectedName(payload)
        /\ dec.payload = ExpectedBytes(payload)

C1_Witness ==
    /\ pc = "decoded"
    /\ payload = [tag |-> "File", file_name |-> <<>>, bytes |-> <<>>]
    /\ carrier = Pattern("ones", 80)
    /\ dec.ok /\ dec.name = <<>> /\ dec.payload = <<>>

C3_OnlyFrameLsbsChange ==
    (pc # "ready" /\ enc.ok) =>
        /\ Len(enc.bytes) = Len(carrier)
        /\ \A i \in 1..Len(carrier) : enc.bytes[i] \div 2 = carrier[i] \div 2
        /\ \A i \in 1..Len(carrier) :
              i > 8 * FrameLen(payload) => enc.bytes[i] = carrier[i]

C3_Witness ==
    /\ pc = "encoded" /\ enc.ok
    /\ carrier = Pattern("mixed", Len(carrier))
    /\ Len(carrier) = 8 * (FrameLen(payload) + 1) + 5
    /\ enc.bytes # carrier

\* C4: when the windows run out before the declared name is read, decode_image
\* fails with TruncatedFrame.
C4_TruncationIsTruncatedFrame ==
    HasDecoded =>
        LET s == LsbStream(image)
        IN (Len(s) < 2 \/ s[1] + 256 * s[2] > Len(s) - 2) =>
              (~dec.ok /\ dec.err = "TruncatedFrame")

C6_NameTooLong ==
    LET real == IF pshape.tag = "File" THEN pshape.file_name_len
                ELSE FromInt(Len(OutputTxt))
        long == pshape.tag = "File" /\ WLt(FromInt(65535), pshape.file_name_len)
    IN /\ n_pc = "serialized" =>
            /\ long => (~plan.ok /\ plan.err = "NameTooLong")
            /\ plan.ok => FromInt(plan.name_len[1] + 256 * plan.name_len[2]) = real
       /\ n_pc = "planned" =>
            /\ long => plan.outcome # "Ok"
            /\ plan.outcome = "Ok" =>
                  FromInt(plan.name_len[1] + 256 * plan.name_len[2]) = real

C6_Witness ==
    /\ n_pc = "planned"
    /\ plan.outcome = "NameTooLong"
    /\ pshape.file_name_len = FromInt(65536)

\* C7: bit i of the value is bit 0 of byte i of the encoded window, decode_byte
\* gives the value back, and decode_byte of any window is the number its
\* eight parities spell.
C7_BitRoundTrip ==
    /\ b_pc \in {"encoded", "decoded"} =>
          \A i \in 0..7 : encoded[i + 1] % 2 = (value \div (2 ^ i)) % 2
    /\ b_pc = "decoded" => decoded = value
    /\ b_pc = "decoded_target" => decoded = LsbByte(target)

C7_Witness ==
    /\ b_pc = "decoded"
    /\ target = <<160, 150, 68, 40, 140, 46, 76, 136>>
    /\ value = 234
    /\ encoded = <<160, 151, 68, 41, 140, 47, 77, 137>>
    /\ decoded = 234

\* C8 as stated: Literal("") in 80 zero bytes and Literal("A") in 88 zero bytes
\* encode and decode to ("output.txt", []) and ("output.txt", [0x41]).
C8_ScenarioAsStated ==
    /\ (pc # "ready" /\ carrier = Zeros(80) /\ payload = EmptyText) => enc.ok
    /\ (pc # "ready" /\ carrier = Zeros(88) /\ payload = TextA) => enc.ok

\* C8 amended: the frames are 20 and 21 bytes, so the carriers that hold them
\* are 160 and 168 zero bytes; 80 and 88 zero bytes are refused.
C8_Scenario ==
    /\ (pc \in {"encoded", "decoded"} /\ carrier = Zeros(160) /\ payload = EmptyText) =>
          enc.ok
    /\ (pc = "decoded" /\ carrier = Zeros(160) /\ payload = EmptyText) =>
          (dec.ok /\ dec.name = OutputTxt /\ dec.payload = <<>>)
    /\ (pc \in {"encoded", "decoded"} /\ carrier = Zeros(168) /\ payload = TextA) =>
          enc.ok
    /\ (pc = "decoded" /\ carrier = Zeros(168) /\ payload = TextA) =>
          (dec.ok /\ dec.name = OutputTxt /\ dec.payload = <<65>>)
    /\ (pc = "encoded" /\ carrier \in {Zeros(80), Zeros(88)}
          /\ payload \in {EmptyText, TextA}) =>
          (~enc.ok /\ enc.err = "PayloadTooLarge")

C8_Witness ==
    /\ pc = "decoded" /\ carrier = Zeros(168) /\ payload = TextA
    /\ dec.ok /\ dec.name = OutputTxt /\ dec.payload = <<65>>

\* C9: payload_fits(p, c) is true exactly when p * 8 + 64 does not overflow
\* usize and is at most c, as test_payload_fits asserts.
C9_TestPayloadFits ==
    n_pc = "fitted" =>
        LET need == WAdd(WMulSmall(fit_args[1], 8), FromInt(64))
        IN fit_res <=> (IsUsize(need) /\ WLeq(need, fit_args[2]))

\* C10: a successful decode returns the whole declared name and payload: the
\* declared frame lies within the windows of the image, the name is the bytes
\* of windows 2..2+n and the payload the bytes of windows 10+n..10+n+p; no
\* image shorter than 80 bytes decodes.
C10_NoPartialData ==
    HasDecoded =>
        /\ Len(image) < 80 => ~dec.ok
        /\ dec.ok =>
              LET s == LsbStream(image)
                  n == s[1] + 256 * s[2]
                  pb == SubSeq(s, n + 3, n + 10)
                  p == pb[1] + 256 * pb[2] + 65536 * pb[3]
              IN /\ Len(s) >= 10
                 /\ 10 + n <= Len(s)
                 /\ \A j \in 4..8 : pb[j] = 0
                 /\ 10 + n + p <= Len(s)
                 /\ dec.name = SubSeq(s, 3, 2 + n)
                 /\ dec.payload = SubSeq(s, 11 + n, 10 + n + p)

C10_Witness ==
    /\ pc = "decoded_cropped"
    /\ dec.ok
    /\ Len(dec.name) = 2
    /\ dec.payload = <<255>>

====
